---- MODULE Spec2Model ----
(***************************************************************************)
(* Model of src/yb/ql/exec/eval_where.cc: the two overloads of            *)
(* Executor::WhereClauseToPB (write request, read request) and the         *)
(* residual-condition builders WhereOpToPB, WhereSubColOpToPB, FuncOpToPB. *)
(*                                                                         *)
(* One call is modelled per behaviour.  The arguments of the call are      *)
(* fixed in the initial state; the actions are the steps of the call:      *)
(* one per loop iteration, one per loop exit / check, and one for the      *)
(* construction of the where clause.  pc is the position of the call and   *)
(* ret_line the source line at which it ended.                             *)
(***************************************************************************)
EXTENDS Integers, Sequences, FiniteSets

VARIABLES path, partition_key_ops, key_where_ops, where_ops, subcol_where_ops,
          func_ops, req, no_results, key_ops_are_set, part_i, key_i, sub_i,
          pc, status, ret_line

vars == <<path, partition_key_ops, key_where_ops, where_ops, subcol_where_ops,
          func_ops, req, no_results, key_ops_are_set, part_i, key_i, sub_i,
          pc, status, ret_line>>

inputs == <<path, partition_key_ops, key_where_ops, where_ops, subcol_where_ops,
            func_ops>>

-----------------------------------------------------------------------------
(* Bounds and constants *)

\* Largest total number of operations in the WHERE clause of one statement.
MaxOps == 3

\* YBPartition::kMaxHashCode, the largest 16-bit hash code.
kMaxHashCode == 65535

\* Hash codes the token expressions of partition-key ops map to.
HashValues == {0, kMaxHashCode - 1, kMaxHashCode}

\* YBPartition::CqlToYBHashCode, on the 16 high bits of the signed 64-bit token
\* (token >> 48, in -32768..32767): the sign bit is flipped, so that negative
\* tokens get the smaller hash codes.
CqlToYBHashCode(high16) ==
  LET u == high16 % 65536
  IN IF u >= 32768 THEN u - 32768 ELSE u + 32768

\* The tokens (their 16 high bits) that map to HashValues.
TokenValues == {t \in {-32768, -1, 0, 32766, 32767} : CqlToYBHashCode(t) \in HashValues}

-----------------------------------------------------------------------------
(* Parse-tree expressions (PTExpr) and their protobuf form (QLExpressionPB) *)

ConstExpr(v) == [tag |-> "const", v |-> v, elems |-> <<>>]
CollectionExpr(es) == [tag |-> "collection", v |-> 0, elems |-> es]
BcallExpr(f) == [tag |-> "bcall", v |-> f, elems |-> <<>>]
\* An expression whose lowering fails.
BadExpr == [tag |-> "bad", v |-> 0, elems |-> <<>>]
\* An expression that lowers, but does not fold to a constant.
NonConstExpr == [tag |-> "ref", v |-> 0, elems |-> <<>>]

UnsetPB == [kind |-> "unset", v |-> 0, elems |-> <<>>, args |-> <<>>]
ValuePB(v) == [kind |-> "value", v |-> v, elems |-> <<>>, args |-> <<>>]
ListPB(es) == [kind |-> "list_value", v |-> 0, elems |-> es, args |-> <<>>]
BfcallPB(f) == [kind |-> "bfcall", v |-> f, elems |-> <<>>, args |-> <<>>]
RefPB(v) == [kind |-> "bind_id", v |-> v, elems |-> <<>>, args |-> <<>>]
ColumnIdPB(id) == [kind |-> "column_id", v |-> id, elems |-> <<>>, args |-> <<>>]
SubscriptedColPB(id, as) ==
  [kind |-> "subscripted_col", v |-> id, elems |-> <<>>, args |-> as]

\* PTExprToPB(expr, pb): the status and the content of the output slot.
PTExprToPB(expr) ==
  CASE expr.tag = "const" -> [ok |-> TRUE, pb |-> ValuePB(expr.v)]
    [] expr.tag = "collection" -> [ok |-> TRUE, pb |-> ListPB(expr.elems)]
    [] expr.tag = "bcall" -> [ok |-> TRUE, pb |-> BfcallPB(expr.v)]
    [] expr.tag = "ref" -> [ok |-> TRUE, pb |-> RefPB(expr.v)]
    [] OTHER -> [ok |-> FALSE, pb |-> UnsetPB]

\* YQLExpression::Evaluate on an empty row: only a constant folds.
Evaluate(expr_pb) ==
  IF expr_pb.kind = "value" THEN [ok |-> TRUE, value |-> expr_pb.v]
  ELSE [ok |-> FALSE, value |-> 0]

-----------------------------------------------------------------------------
(* Column descriptors and operations *)

HashCol == [id |-> 1, role |-> "hash"]
RangeCol == [id |-> 2, role |-> "range"]
RegularCol == [id |-> 3, role |-> "regular"]
MapCol == [id |-> 4, role |-> "regular"]

is_hash(desc) == desc.role = "hash"
is_primary(desc) == desc.role \in {"hash", "range"}

ColumnOp(desc, op, expr) == [desc |-> desc, yb_op |-> op, expr |-> expr]
SubscriptedColumnOp(desc, op, args, expr) ==
  [desc |-> desc, yb_op |-> op, args |-> args, expr |-> expr]
FuncOp(f, op, expr) == [func_expr |-> f, yb_op |-> op, value_expr |-> expr]
PartitionKeyOp(op, expr) == [yb_op |-> op, expr |-> expr]

TokenOperators ==
  {"QL_OP_GREATER_THAN", "QL_OP_GREATER_THAN_EQUAL", "QL_OP_LESS_THAN",
   "QL_OP_LESS_THAN_EQUAL", "QL_OP_EQUAL"}

\* The partition-key ops a statement may carry.  The value of a constant
\* expression is the token it folds to.
PartitionKeyOpChoices ==
  {PartitionKeyOp(o, ConstExpr(t)) : o \in TokenOperators, t \in TokenValues}
    \cup {PartitionKeyOp("QL_OP_NOT_EQUAL", ConstExpr(0)),
          PartitionKeyOp("QL_OP_EQUAL", BadExpr),
          PartitionKeyOp("QL_OP_EQUAL", NonConstExpr)}

KeyOpChoices ==
  {ColumnOp(HashCol, "QL_OP_EQUAL", ConstExpr(1)),
   ColumnOp(HashCol, "QL_OP_EQUAL", BadExpr),
   ColumnOp(HashCol, "QL_OP_IN", CollectionExpr(<<>>)),
   ColumnOp(HashCol, "QL_OP_IN", CollectionExpr(<<7>>)),
   ColumnOp(HashCol, "QL_OP_IN", CollectionExpr(<<7, 8>>)),
   ColumnOp(RangeCol, "QL_OP_EQUAL", ConstExpr(2)),
   ColumnOp(RegularCol, "QL_OP_EQUAL", ConstExpr(3))}

WhereOpChoices ==
  {ColumnOp(RegularCol, "QL_OP_GREATER_THAN", ConstExpr(5)),
   ColumnOp(RegularCol, "QL_OP_LESS_THAN", BadExpr)}

SubColOpChoices ==
  {SubscriptedColumnOp(MapCol, "QL_OP_EQUAL", <<ConstExpr(1)>>, ConstExpr(6)),
   SubscriptedColumnOp(MapCol, "QL_OP_EQUAL", <<BadExpr>>, ConstExpr(6)),
   SubscriptedColumnOp(MapCol, "QL_OP_EQUAL", <<ConstExpr(1)>>, BadExpr)}

FuncOpChoices ==
  {FuncOp(BcallExpr(9), "QL_OP_EQUAL", ConstExpr(1)),
   FuncOp(BcallExpr(9), "QL_OP_EQUAL", BadExpr)}

SeqsUpTo(S, n) == UNION {[1..k -> S] : k \in 0..n}

-----------------------------------------------------------------------------
(* The request (QLReadRequestPB / QLWriteRequestPB) *)

NoWhereExpr == [set |-> FALSE, op |-> "QL_OP_NOOP", operands |-> <<>>]

FreshRequest ==
  [hashed_column_values |-> <<>>,
   range_column_values |-> <<>>,
   column_values |-> <<>>,
   has_hash_code |-> FALSE, hash_code |-> 0,
   has_max_hash_code |-> FALSE, max_hash_code |-> 0,
   where_expr |-> NoWhereExpr]

set_hash_code(r, v) == [r EXCEPT !.has_hash_code = TRUE, !.hash_code = v]
set_max_hash_code(r, v) == [r EXCEPT !.has_max_hash_code = TRUE, !.max_hash_code = v]

-----------------------------------------------------------------------------
(* Read path, lines 70-112: bounds on the partition key *)

Continue(r) == [kind |-> "continue", req |-> r]
Return(r) == [kind |-> "return", req |-> r]
Fatal(r) == [kind |-> "fatal", req |-> r]
Break(r) == [kind |-> "break", req |-> r]
Error(r) == [kind |-> "error", req |-> r]

\* Mutant: the token after the largest hash code is not recognised as empty.
CaseGreaterThanNoReturn(r, hash_code) ==
  IF hash_code # kMaxHashCode
    THEN Continue(set_hash_code(r, hash_code + 1))
    ELSE Continue(r)

\* case QL_OP_GREATER_THAN
CaseGreaterThan(r, hash_code) ==
  IF hash_code # kMaxHashCode
    THEN Continue(set_hash_code(r, hash_code + 1))
    ELSE Return(r)

\* case QL_OP_GREATER_THAN_EQUAL
CaseGreaterThanEqual(r, hash_code) == Continue(set_hash_code(r, hash_code))

\* case QL_OP_LESS_THAN
CaseLessThan(r, hash_code) == Continue(set_max_hash_code(r, hash_code))

\* Mutant: the upper bound is written without the guard on the largest hash code.
CaseLessThanEqualUnguarded(r, hash_code) ==
  Continue(set_max_hash_code(r, hash_code + 1))

\* case QL_OP_LESS_THAN_EQUAL
CaseLessThanEqual(r, hash_code) ==
  IF hash_code # kMaxHashCode
    THEN Continue(set_max_hash_code(r, hash_code + 1))
    ELSE Continue(r)

\* Mutant: equality sets the lower bound only.
CaseEqualNoUpper(r, hash_code) == Continue(set_hash_code(r, hash_code))

\* case QL_OP_EQUAL
CaseEqual(r, hash_code) ==
  LET r1 == set_hash_code(r, hash_code)
  IN IF hash_code # kMaxHashCode
       THEN Continue(set_max_hash_code(r1, hash_code + 1))
       ELSE Continue(r1)

\* switch (op.yb_op())
TokenSwitch(r, yb_op, hash_code) ==
  CASE yb_op = "QL_OP_GREATER_THAN" -> CaseGreaterThan(r, hash_code)
    [] yb_op = "QL_OP_GREATER_THAN_EQUAL" -> CaseGreaterThanEqual(r, hash_code)
    [] yb_op = "QL_OP_LESS_THAN" -> CaseLessThan(r, hash_code)
    [] yb_op = "QL_OP_LESS_THAN_EQUAL" -> CaseLessThanEqual(r, hash_code)
    [] yb_op = "QL_OP_EQUAL" -> CaseEqual(r, hash_code)
    [] OTHER -> Fatal(r)

-----------------------------------------------------------------------------
(* Read path, lines 114-140: the hash key columns *)

\* Mutant: the hashed column values are not cleared on a multi-valued IN.
InConditionNoClear(r) ==
  LET n == Len(r.hashed_column_values)
      col_pb == r.hashed_column_values[n]
      in_size == Len(col_pb.elems)
  IN IF in_size = 0 THEN Return(r)
     ELSE IF in_size = 1
       THEN Continue([r EXCEPT !.hashed_column_values[n] = ValuePB(col_pb.elems[1])])
       ELSE Break(r)

\* Mutant: an empty IN is handled like a multi-valued one.
InConditionNoEmpty(r) ==
  LET n == Len(r.hashed_column_values)
      col_pb == r.hashed_column_values[n]
      in_size == Len(col_pb.elems)
  IN IF in_size = 1
       THEN Continue([r EXCEPT !.hashed_column_values[n] = ValuePB(col_pb.elems[1])])
       ELSE Break([r EXCEPT !.hashed_column_values = <<>>])

\* Mutant: a one-element IN keeps its list.
InConditionNoSwap(r) ==
  LET n == Len(r.hashed_column_values)
      col_pb == r.hashed_column_values[n]
      in_size == Len(col_pb.elems)
  IN IF in_size = 0 THEN Return(r)
     ELSE IF in_size = 1 THEN Continue(r)
     ELSE Break([r EXCEPT !.hashed_column_values = <<>>])

\* if (op.yb_op() == QL_OP_IN) { ... } on the slot just added
InCondition(r) ==
  LET n == Len(r.hashed_column_values)
      col_pb == r.hashed_column_values[n]
      in_size == Len(col_pb.elems)
  IN IF in_size = 0 THEN Return(r)
     ELSE IF in_size = 1
       THEN Continue([r EXCEPT !.hashed_column_values[n] = ValuePB(col_pb.elems[1])])
       ELSE Break([r EXCEPT !.hashed_column_values = <<>>])

\* The body of the loop over key_where_ops.
ReadKeyOp(r, op) ==
  IF ~is_hash(op.desc) THEN Fatal(r)
  ELSE LET low == PTExprToPB(op.expr)
           r1 == [r EXCEPT !.hashed_column_values = Append(@, low.pb)]
       IN IF ~low.ok THEN Error(r1)
          ELSE IF op.yb_op = "QL_OP_IN" THEN InCondition(r1)
          ELSE Continue(r1)

-----------------------------------------------------------------------------
(* Read path, lines 142-165, and the builders of lines 168-214 *)

\* Mutant: the emptiness test of where_ops is inverted.
SkipWhereClauseInverted(kset, w, s, f) == kset /\ w # <<>> /\ s = <<>> /\ f = <<>>

\* Skip generation of query condition if where clause is empty.
SkipWhereClause(kset, w, s, f) == kset /\ w = <<>> /\ s = <<>> /\ f = <<>>

Condition(op, operands) == [op |-> op, operands |-> operands]

WhereOpToPB(col_op) ==
  LET low == PTExprToPB(col_op.expr)
  IN [ok |-> low.ok,
      cond |-> Condition(col_op.yb_op, <<ColumnIdPB(col_op.desc.id), low.pb>>)]

\* The subscript arguments, lowered in order up to the first failure.
LowerArgs(args) ==
  LET lows == [i \in 1..Len(args) |-> PTExprToPB(args[i])]
      bad == {i \in 1..Len(args) : ~lows[i].ok}
      n == IF bad = {} THEN Len(args)
           ELSE CHOOSE i \in bad : \A j \in bad : i <= j
  IN [ok |-> bad = {}, pbs |-> [i \in 1..n |-> lows[i].pb]]

WhereSubColOpToPB(col_op) ==
  LET la == LowerArgs(col_op.args)
      lhs == SubscriptedColPB(col_op.desc.id, la.pbs)
      low == PTExprToPB(col_op.expr)
  IN IF ~la.ok THEN [ok |-> FALSE, cond |-> Condition(col_op.yb_op, <<lhs>>)]
     ELSE [ok |-> low.ok, cond |-> Condition(col_op.yb_op, <<lhs, low.pb>>)]

FuncOpToPB(func_op) ==
  LET lf == PTExprToPB(func_op.func_expr)
      low == PTExprToPB(func_op.value_expr)
  IN IF ~lf.ok THEN [ok |-> FALSE, cond |-> Condition(func_op.yb_op, <<lf.pb>>)]
     ELSE [ok |-> low.ok, cond |-> Condition(func_op.yb_op, <<lf.pb, low.pb>>)]

\* One loop of "RETURN_NOT_OK(...ToPB(where_pb->add_operands()->..., op))":
\* the operands are added in order up to and including the first that fails.
AddOperands(acc, results, line) ==
  IF ~acc.ok THEN acc
  ELSE LET bad == {i \in 1..Len(results) : ~results[i].ok}
           n == IF bad = {} THEN Len(results)
                ELSE CHOOSE i \in bad : \A j \in bad : i <= j
       IN [ok |-> bad = {},
           operands |-> acc.operands \o [i \in 1..n |-> results[i].cond],
           line |-> IF bad = {} THEN acc.line ELSE line]

\* Mutant: the subscripted-column ops are added before the column ops.
WhereClauseSubColFirst(r, kset, key, w, s, f) ==
  LET a0 == [ok |-> TRUE, operands |-> <<>>, line |-> 165]
      a1 == IF ~kset
              THEN AddOperands(a0, [i \in 1..Len(key) |-> WhereOpToPB(key[i])], 152)
              ELSE a0
      a2 == AddOperands(a1, [i \in 1..Len(s) |-> WhereSubColOpToPB(s[i])], 159)
      a3 == AddOperands(a2, [i \in 1..Len(w) |-> WhereOpToPB(w[i])], 156)
      a4 == AddOperands(a3, [i \in 1..Len(f) |-> FuncOpToPB(f[i])], 162)
  IN [ok |-> a4.ok, line |-> a4.line,
      req |-> [r EXCEPT !.where_expr =
                 [set |-> TRUE, op |-> "QL_OP_AND", operands |-> a4.operands]]]

\* Setup the where clause.
WhereClause(r, kset, key, w, s, f) ==
  LET a0 == [ok |-> TRUE, operands |-> <<>>, line |-> 165]
      a1 == IF ~kset
              THEN AddOperands(a0, [i \in 1..Len(key) |-> WhereOpToPB(key[i])], 152)
              ELSE a0
      a2 == AddOperands(a1, [i \in 1..Len(w) |-> WhereOpToPB(w[i])], 156)
      a3 == AddOperands(a2, [i \in 1..Len(s) |-> WhereSubColOpToPB(s[i])], 159)
      a4 == AddOperands(a3, [i \in 1..Len(f) |-> FuncOpToPB(f[i])], 162)
  IN [ok |-> a4.ok, line |-> a4.line,
      req |-> [r EXCEPT !.where_expr =
                 [set |-> TRUE, op |-> "QL_OP_AND", operands |-> a4.operands]]]

-----------------------------------------------------------------------------
(* Write path, lines 25-58 *)

\* The body of the loop over key_where_ops.
WriteKeyOp(r, op) ==
  LET low == PTExprToPB(op.expr)
  IN IF is_hash(op.desc)
       THEN (IF low.ok THEN Continue([r EXCEPT !.hashed_column_values = Append(@, low.pb)])
             ELSE Error([r EXCEPT !.hashed_column_values = Append(@, low.pb)]))
     ELSE IF is_primary(op.desc)
       THEN (IF low.ok THEN Continue([r EXCEPT !.range_column_values = Append(@, low.pb)])
             ELSE Error([r EXCEPT !.range_column_values = Append(@, low.pb)]))
     ELSE Fatal(r)

\* Mutant: the check is missing.
CheckWhereOpsMissing(w) == TRUE

\* CHECK(where_ops.empty())
CheckWhereOps(w) == w = <<>>

\* The body of the loop over subcol_where_ops.
WriteSubColOp(r, op) ==
  LET la == LowerArgs(op.args)
      low == PTExprToPB(op.expr)
      col_pb == [column_id |-> op.desc.id, subscript_args |-> la.pbs,
                 expr |-> IF la.ok THEN low.pb ELSE UnsetPB]
      r1 == [r EXCEPT !.column_values = Append(@, col_pb)]
  IN IF ~la.ok THEN [kind |-> "error", req |-> r1, line |-> 52]
     ELSE IF ~low.ok THEN [kind |-> "error", req |-> r1, line |-> 54]
     ELSE [kind |-> "continue", req |-> r1, line |-> 0]

-----------------------------------------------------------------------------
(* The call *)

Init ==
  /\ path \in {"read", "write"}
  /\ partition_key_ops \in
       (IF path = "read" THEN SeqsUpTo(PartitionKeyOpChoices, MaxOps) ELSE {<<>>})
  /\ key_where_ops \in SeqsUpTo(KeyOpChoices, MaxOps - Len(partition_key_ops))
  /\ where_ops \in
       SeqsUpTo(WhereOpChoices, MaxOps - Len(partition_key_ops) - Len(key_where_ops))
  /\ subcol_where_ops \in
       SeqsUpTo(SubColOpChoices,
                MaxOps - Len(partition_key_ops) - Len(key_where_ops) - Len(where_ops))
  /\ func_ops \in
       (IF path = "read"
          THEN SeqsUpTo(FuncOpChoices,
                        MaxOps - Len(partition_key_ops) - Len(key_where_ops)
                          - Len(where_ops) - Len(subcol_where_ops))
          ELSE {<<>>})
  /\ req = FreshRequest
  /\ no_results = FALSE
  /\ key_ops_are_set = FALSE
  /\ part_i = 1
  /\ key_i = 1
  /\ sub_i = 1
  /\ pc = IF path = "read" THEN "partition_key_ops" ELSE "w_key_where_ops"
  /\ status = "running"
  /\ ret_line = 0

\* The call ends at `line` with `st`: "OK", "NotOK" (a failure status is
\* returned) or "FATAL" (the process aborts, nothing is returned).
Finish(st, line) ==
  /\ pc' = "done"
  /\ status' = st
  /\ ret_line' = line

Running == UNCHANGED <<pc, status, ret_line>>

\* One iteration of the loop of line 71.
ReadPartitionKeyOp ==
  /\ pc = "partition_key_ops"
  /\ part_i <= Len(partition_key_ops)
  /\ LET op == partition_key_ops[part_i]
         low == PTExprToPB(op.expr)
         ev == Evaluate(low.pb)
         sw == TokenSwitch(req, op.yb_op, CqlToYBHashCode(ev.value))
     IN IF ~low.ok
          THEN Finish("NotOK", 73) /\ UNCHANGED <<req, no_results, part_i>>
        ELSE IF ~ev.ok
          THEN Finish("NotOK", 77) /\ UNCHANGED <<req, no_results, part_i>>
        ELSE IF sw.kind = "return"
          THEN Finish("OK", 88) /\ no_results' = TRUE /\ req' = sw.req
               /\ UNCHANGED part_i
        ELSE IF sw.kind = "fatal"
          THEN Finish("FATAL", 110) /\ UNCHANGED <<req, no_results, part_i>>
        ELSE Running /\ req' = sw.req /\ part_i' = part_i + 1
             /\ UNCHANGED no_results
  /\ UNCHANGED <<inputs, key_ops_are_set, key_i, sub_i>>

\* The loop of line 71 ends; line 115.
ReadPartitionKeyOpsEnd ==
  /\ pc = "partition_key_ops"
  /\ part_i > Len(partition_key_ops)
  /\ pc' = "key_where_ops"
  /\ key_ops_are_set' = TRUE
  /\ UNCHANGED <<inputs, req, no_results, part_i, key_i, sub_i, status, ret_line>>

\* One iteration of the loop of line 116.
ReadKeyWhereOp ==
  /\ pc = "key_where_ops"
  /\ key_i <= Len(key_where_ops)
  /\ LET res == ReadKeyOp(req, key_where_ops[key_i])
     IN /\ req' = res.req
        /\ IF res.kind = "fatal"
             THEN Finish("FATAL", 119) /\ UNCHANGED <<no_results, key_ops_are_set, key_i>>
           ELSE IF res.kind = "error"
             THEN Finish("NotOK", 122) /\ UNCHANGED <<no_results, key_ops_are_set, key_i>>
           ELSE IF res.kind = "return"
             THEN Finish("OK", 128) /\ no_results' = TRUE
                  /\ UNCHANGED <<key_ops_are_set, key_i>>
           ELSE IF res.kind = "break"
             THEN /\ pc' = "where_clause"
                  /\ key_ops_are_set' = FALSE
                  /\ UNCHANGED <<no_results, key_i, status, ret_line>>
           ELSE Running /\ key_i' = key_i + 1 /\ UNCHANGED <<no_results, key_ops_are_set>>
  /\ UNCHANGED <<inputs, part_i, sub_i>>

\* The loop of line 116 runs out of ops.
ReadKeyWhereOpsEnd ==
  /\ pc = "key_where_ops"
  /\ key_i > Len(key_where_ops)
  /\ pc' = "where_clause"
  /\ UNCHANGED <<inputs, req, no_results, key_ops_are_set, part_i, key_i, sub_i,
                 status, ret_line>>

\* Lines 143-145: nothing is left to filter on.
ReadSkipWhereClause ==
  /\ pc = "where_clause"
  /\ SkipWhereClause(key_ops_are_set, where_ops, subcol_where_ops, func_ops)
  /\ Finish("OK", 144)
  /\ UNCHANGED <<inputs, req, no_results, key_ops_are_set, part_i, key_i, sub_i>>

\* Lines 147-165.
ReadWhereClause ==
  /\ pc = "where_clause"
  /\ ~SkipWhereClause(key_ops_are_set, where_ops, subcol_where_ops, func_ops)
  /\ LET res == WhereClause(req, key_ops_are_set, key_where_ops, where_ops,
                            subcol_where_ops, func_ops)
     IN /\ req' = res.req
        /\ Finish(IF res.ok THEN "OK" ELSE "NotOK", res.line)
  /\ UNCHANGED <<inputs, no_results, key_ops_are_set, part_i, key_i, sub_i>>

\* One iteration of the loop of line 30.
WriteKeyWhereOp ==
  /\ pc = "w_key_where_ops"
  /\ key_i <= Len(key_where_ops)
  /\ LET res == WriteKeyOp(req, key_where_ops[key_i])
     IN /\ req' = res.req
        /\ IF res.kind = "fatal" THEN Finish("FATAL", 38) /\ UNCHANGED key_i
           ELSE IF res.kind = "error" THEN Finish("NotOK", 40) /\ UNCHANGED key_i
           ELSE Running /\ key_i' = key_i + 1
  /\ UNCHANGED <<inputs, no_results, key_ops_are_set, part_i, sub_i>>

\* The loop of line 30 ends; the CHECK of line 44.
WriteCheckWhereOps ==
  /\ pc = "w_key_where_ops"
  /\ key_i > Len(key_where_ops)
  /\ IF CheckWhereOps(where_ops)
       THEN pc' = "w_subcol_where_ops" /\ UNCHANGED <<status, ret_line>>
       ELSE Finish("FATAL", 44)
  /\ UNCHANGED <<inputs, req, no_results, key_ops_are_set, part_i, key_i, sub_i>>

\* One iteration of the loop of line 46.
WriteSubColWhereOp ==
  /\ pc = "w_subcol_where_ops"
  /\ sub_i <= Len(subcol_where_ops)
  /\ LET res == WriteSubColOp(req, subcol_where_ops[sub_i])
     IN /\ req' = res.req
        /\ IF res.kind = "error" THEN Finish("NotOK", res.line) /\ UNCHANGED sub_i
           ELSE Running /\ sub_i' = sub_i + 1
  /\ UNCHANGED <<inputs, no_results, key_ops_are_set, part_i, key_i>>

\* Line 57.
WriteReturn ==
  /\ pc = "w_subcol_where_ops"
  /\ sub_i > Len(subcol_where_ops)
  /\ Finish("OK", 57)
  /\ UNCHANGED <<inputs, req, no_results, key_ops_are_set, part_i, key_i, sub_i>>

Next ==
  \/ ReadPartitionKeyOp
  \/ ReadPartitionKeyOpsEnd
  \/ ReadKeyWhereOp
  \/ ReadKeyWhereOpsEnd
  \/ ReadSkipWhereClause
  \/ ReadWhereClause
  \/ WriteKeyWhereOp
  \/ WriteCheckWhereOps
  \/ WriteSubColWhereOp
  \/ WriteReturn

Spec == Init /\ [][Next]_vars

-----------------------------------------------------------------------------
(* Vocabulary of the properties *)

Done == pc = "done"
ReadDone == path = "read" /\ Done
ReadOK == ReadDone /\ status = "OK"
WriteDone == path = "write" /\ Done

NoResidualOps == where_ops = <<>> /\ subcol_where_ops = <<>> /\ func_ops = <<>>

\* The token-bound reducer has finished and no later stage has acted.
ReducerFinished ==
  /\ path = "read"
  /\ \/ pc = "key_where_ops" /\ key_i = 1
     \/ Done /\ ret_line = 88

\* The request's token interval and the flag, as the reducer leaves them.
Interval(r, nr) ==
  [has_hash_code |-> r.has_hash_code, hash_code |-> r.hash_code,
   has_max_hash_code |-> r.has_max_hash_code, max_hash_code |-> r.max_hash_code,
   no_results |-> nr]

TokenOp(op, v) == [yb_op |-> op, hash_code |-> v]

\* The loop of lines 71-112 on a list of (operator, hash code) pairs.
RECURSIVE ReduceFrom(_, _, _)
ReduceFrom(r, ops, i) ==
  IF i > Len(ops) THEN [req |-> r, no_results |-> FALSE]
  ELSE LET sw == TokenSwitch(r, ops[i].yb_op, ops[i].hash_code)
       IN IF sw.kind = "return" THEN [req |-> sw.req, no_results |-> TRUE]
          ELSE ReduceFrom(sw.req, ops, i + 1)

ReduceTokenOps(ops) ==
  LET res == ReduceFrom(FreshRequest, ops, 1)
  IN Interval(res.req, res.no_results)

HashCodeOfOp(op) == CqlToYBHashCode(op.expr.v)

IsInOfSize(op, n) ==
  is_hash(op.desc) /\ op.yb_op = "QL_OP_IN" /\ op.expr.tag = "collection"
    /\ Len(op.expr.elems) = n
IsMultiIn(op) ==
  is_hash(op.desc) /\ op.yb_op = "QL_OP_IN" /\ op.expr.tag = "collection"
    /\ Len(op.expr.elems) >= 2
IsEq(op) == is_hash(op.desc) /\ op.yb_op = "QL_OP_EQUAL" /\ op.expr.tag = "const"

KeyIndices == 1..Len(key_where_ops)

\* The operand a column op contributes to the residual predicate.
ColumnCondition(op) ==
  Condition(op.yb_op, <<ColumnIdPB(op.desc.id), PTExprToPB(op.expr).pb>>)
SubColCondition(op) ==
  Condition(op.yb_op,
            <<SubscriptedColPB(op.desc.id,
                               [i \in 1..Len(op.args) |-> PTExprToPB(op.args[i]).pb]),
              PTExprToPB(op.expr).pb>>)
FuncCondition(op) ==
  Condition(op.yb_op, <<PTExprToPB(op.func_expr).pb, PTExprToPB(op.value_expr).pb>>)

ExpectedOperands ==
  (IF key_ops_are_set THEN <<>>
   ELSE [i \in KeyIndices |-> ColumnCondition(key_where_ops[i])])
    \o [i \in 1..Len(where_ops) |-> ColumnCondition(where_ops[i])]
    \o [i \in 1..Len(subcol_where_ops) |-> SubColCondition(subcol_where_ops[i])]
    \o [i \in 1..Len(func_ops) |-> FuncCondition(func_ops[i])]

-----------------------------------------------------------------------------
(* Properties *)

\* C1: when a read returns successfully with both hash_code and max_hash_code
\* set, either hash_code < max_hash_code or no_results is true.
C1_IntervalNonEmptyOrNoResults ==
  (ReadOK /\ req.has_hash_code /\ req.has_max_hash_code)
    => (req.hash_code < req.max_hash_code \/ no_results)

HasMultiIn == \E i \in KeyIndices : IsMultiIn(key_where_ops[i])

KeyOpsAreResidual ==
  /\ req.hashed_column_values = <<>>
  /\ req.where_expr.set
  /\ req.where_expr.op = "QL_OP_AND"
  /\ \A i \in KeyIndices :
       \E j \in 1..Len(req.where_expr.operands) :
         req.where_expr.operands[j] = ColumnCondition(key_where_ops[i])

\* C2 (as stated): after a successful return of a read whose key ops contain a
\* multi-valued IN on a hash column, hashed_column_values is empty and
\* where_expr.condition is an AND with an operand for every key op.
C2_MultiInDefersAllKeyOps == (ReadOK /\ HasMultiIn) => KeyOpsAreResidual

\* C2 (amended): the same, for a successful return with no_results = false.
C2_MultiInDefersAllKeyOpsUnlessNoResults ==
  (ReadOK /\ ~no_results /\ HasMultiIn) => KeyOpsAreResidual

C2_Witness ==
  /\ ReadOK /\ ~no_results
  /\ Len(key_where_ops) = 3
  /\ IsEq(key_where_ops[1]) /\ IsMultiIn(key_where_ops[2]) /\ IsEq(key_where_ops[3])

\* C3: in a read where key_ops_are_set is still true after the key-op scan and
\* where_ops, subcol_ops and func_ops are empty, where_expr is absent after the
\* call returns.
C3_NoWhereExprWithoutResidualOps ==
  (ReadDone /\ ret_line >= 143 /\ key_ops_are_set /\ NoResidualOps)
    => ~req.where_expr.set

C3_Witness ==
  /\ ReadDone /\ ret_line >= 143 /\ key_ops_are_set /\ NoResidualOps
  /\ key_where_ops # <<>> /\ partition_key_ops # <<>>

\* C4: for v < MAX_HASH, reducing [EQ v] on a fresh request yields the same
\* hash_code, max_hash_code and no_results as reducing [GE v, LT v+1].
C4_EqualIsGeLtSuccessor ==
  (/\ ReducerFinished
   /\ Len(partition_key_ops) = 1
   /\ partition_key_ops[1].yb_op = "QL_OP_EQUAL"
   /\ partition_key_ops[1].expr.tag = "const"
   /\ HashCodeOfOp(partition_key_ops[1]) < kMaxHashCode)
    => LET v == HashCodeOfOp(partition_key_ops[1])
       IN Interval(req, no_results) =
            ReduceTokenOps(<<TokenOp("QL_OP_GREATER_THAN_EQUAL", v),
                             TokenOp("QL_OP_LESS_THAN", v + 1)>>)

C4_Witness ==
  /\ ReducerFinished
  /\ Len(partition_key_ops) = 1
  /\ partition_key_ops[1].yb_op = "QL_OP_EQUAL"
  /\ partition_key_ops[1].expr.tag = "const"
  /\ HashCodeOfOp(partition_key_ops[1]) = kMaxHashCode - 1
  /\ req.has_max_hash_code

HasEmptyIn == \E i \in KeyIndices : IsInOfSize(key_where_ops[i], 0)

\* An empty IN that no multi-valued IN precedes.
HasLeadingEmptyIn ==
  \E i \in KeyIndices :
    /\ IsInOfSize(key_where_ops[i], 0)
    /\ \A j \in 1..(i - 1) : ~IsMultiIn(key_where_ops[j])

IsGtMax(op) ==
  op.yb_op = "QL_OP_GREATER_THAN" /\ op.expr.tag = "const"
    /\ HashCodeOfOp(op) = kMaxHashCode

\* The switch of lines 81-111 has been executed on partition-key op j.
Processed(j) ==
  \/ j < part_i
  \/ j = part_i /\ pc # "partition_key_ops" /\ ret_line \notin {73, 77}

\* C6: once the reducer processes GT MAX_HASH the call has returned successfully
\* with no_results = true; no later partition-key op is applied, the key ops
\* are not scanned, hashed_column_values is empty and where_expr unset; if it is
\* the only partition-key op, hash_code and max_hash_code are unset.
C6_GtMaxReturnsAtOnce ==
  path = "read" =>
    \A j \in 1..Len(partition_key_ops) :
      (IsGtMax(partition_key_ops[j]) /\ Processed(j)) =>
        /\ Done /\ status = "OK" /\ ret_line = 88
        /\ no_results
        /\ part_i = j
        /\ key_i = 1
        /\ req.hashed_column_values = <<>>
        /\ ~req.where_expr.set
        /\ Interval(req, FALSE) =
             ReduceTokenOps([i \in 1..(j - 1) |->
                               TokenOp(partition_key_ops[i].yb_op,
                                       HashCodeOfOp(partition_key_ops[i]))])
        /\ (Len(partition_key_ops) = 1
              => ~req.has_hash_code /\ ~req.has_max_hash_code)

C6_Witness ==
  /\ ReadDone /\ ret_line = 88
  /\ Len(partition_key_ops) = 2 /\ part_i = 1
  /\ IsGtMax(partition_key_ops[1])
  /\ partition_key_ops[2].yb_op = "QL_OP_LESS_THAN"
  /\ key_where_ops # <<>>

WhereExprIsOrderedAnd ==
  /\ req.where_expr.op = "QL_OP_AND"
  /\ req.where_expr.operands = ExpectedOperands
  /\ Len(req.where_expr.operands) =
       (IF key_ops_are_set THEN 0 ELSE Len(key_where_ops))
         + Len(where_ops) + Len(subcol_where_ops) + Len(func_ops)

\* C7 (as stated): whenever the read path builds where_expr, its root is an AND
\* whose operands are the key ops (if key_ops_are_set is false), the where ops,
\* the subscripted-column ops and the function ops, in that order, each list in
\* input order, and as many as the lists included hold.
C7_WhereExprOperandOrder ==
  (path = "read" /\ req.where_expr.set) => WhereExprIsOrderedAnd

\* C7 (amended): the same, whenever the read returns successfully with a
\* where_expr.
C7_WhereExprOperandOrderOnSuccess ==
  (ReadOK /\ req.where_expr.set) => WhereExprIsOrderedAnd

C7_Witness ==
  /\ ReadOK /\ req.where_expr.set
  /\ ~key_ops_are_set
  /\ where_ops # <<>>
  /\ (subcol_where_ops # <<>> \/ func_ops # <<>>)
  /\ Len(req.where_expr.operands) = 3

AllKeyOpsSingleValued ==
  \A i \in KeyIndices : IsEq(key_where_ops[i]) \/ IsInOfSize(key_where_ops[i], 1)

KeyOpsAreBound ==
  /\ req.hashed_column_values =
       [i \in KeyIndices |->
          IF key_where_ops[i].yb_op = "QL_OP_IN"
            THEN ValuePB(key_where_ops[i].expr.elems[1])
            ELSE ValuePB(key_where_ops[i].expr.v)]
  /\ key_ops_are_set
  /\ (NoResidualOps => ~req.where_expr.set)

\* C8 (as stated): in a successful read whose key ops are EQ or one-element IN,
\* hashed_column_values has one entry per key op, in order, the entry of an IN
\* being its single element; key_ops_are_set stays true and, with no residual
\* ops, where_expr is unset.
C8_SingletonInIsEquality == (ReadOK /\ AllKeyOpsSingleValued) => KeyOpsAreBound

\* C8 (amended): the same, for a successful return with no_results = false.
C8_SingletonInIsEqualityUnlessNoResults ==
  (ReadOK /\ ~no_results /\ AllKeyOpsSingleValued) => KeyOpsAreBound

C8_Witness ==
  /\ ReadOK /\ ~no_results /\ AllKeyOpsSingleValued
  /\ Len(key_where_ops) = 2
  /\ IsInOfSize(key_where_ops[1], 1) /\ IsEq(key_where_ops[2])
  /\ NoResidualOps

\* C9 (as stated): a write with non-empty where_ops aborts and never returns a
\* status, whatever key_ops and subcol_ops hold.
C9_WriteWithWhereOpsAborts ==
  (WriteDone /\ where_ops # <<>>) => status = "FATAL"

\* C9 (amended): a write with non-empty where_ops never returns OK: it aborts,
\* unless the lowering of a key-op expression fails first, and then that failure
\* is returned from line 40.
C9_WriteWithWhereOpsAbortsOrKeyLoweringFails ==
  (WriteDone /\ where_ops # <<>>) =>
    \/ status = "FATAL"
    \/ /\ status = "NotOK" /\ ret_line = 40
       /\ key_i <= Len(key_where_ops)
       /\ ~PTExprToPB(key_where_ops[key_i].expr).ok

C9_Witness ==
  /\ WriteDone /\ where_ops # <<>> /\ ret_line = 44
  /\ key_where_ops # <<>> /\ subcol_where_ops # <<>>

\* C10: every value written to hash_code or max_hash_code lies in
\* 0..MAX_HASH: the v + 1 of GT, LE and EQ never exceeds MAX_HASH.
C10_HashCodesFitSixteenBits ==
  /\ req.hash_code \in 0..kMaxHashCode
  /\ req.max_hash_code \in 0..kMaxHashCode

C10_Witness ==
  /\ req.has_hash_code /\ req.hash_code = kMaxHashCode
  /\ req.has_max_hash_code /\ req.max_hash_code = kMaxHashCode

====
